---- MODULE Spec2Model ----
(***************************************************************************)
(* Read-only SQL gateway of src/app.py: three query entry points           *)
(* (sqlquery_alchemy, sqlquery_direct, query_salesforce_data), the slowapi *)
(* limiter that decorates the first two, the SQLAlchemy pool, the direct   *)
(* psycopg connections, and the PostgreSQL session each connection talks   *)
(* to.  The handlers are `async def` bodies without a single await, served *)
(* by one uvicorn event loop, so a handler runs from its first line to its *)
(* return or raise before the loop serves anything else.                   *)
(***************************************************************************)
EXTENDS Integers, Sequences, FiniteSets, TLC

\* ------------------------------------------------------------------ bounds
\* Inbound calls that may wait for the event loop at once.
MaxPending == 1
\* N of RATE_LIMIT = "N/hour" (src/app.py:63 defaults to 100), scaled down.
Quota == 1
\* The limiter's counter grows without bound; calls from an address are held
\* back once its window has counted two hits above the quota.
MaxHits == Quota + 2

None == "none"

\* ------------------------------------------------------- request contents
REX_API_KEY == "secret"
ApiKeys == {REX_API_KEY, "wrong"}
Addrs == {"a1", "a2"}
\* The routes under @limiter.limit: lines 92 and 127, and none at 164.
ThrottledAll == {"sqlquery_alchemy", "sqlquery_direct", "query_salesforce_data"}

Throttled == {"sqlquery_alchemy", "sqlquery_direct"}
Endpoints == Throttled \cup {"query_salesforce_data"}

\* payload.get("sqlquery") of a JSON body without that key: Python's None,
\* which is not a str.  Only query_salesforce_data can receive it; the other
\* routes declare sqlquery: str.
Absent == <<"None">>

\* SQL text is a sequence of lexemes.  "ws" is white space, "cmt" a comment,
\* ";" the statement separator; the c_* lexemes are select lists.
\*   c_one  = 1 as x          c_dup = 1 as a, 2 as a       c_t = x from t
SqlTexts ==
  { <<"select", "c_one">>,                  \* select 1 as x
    <<"ws", "SELECT", "c_t", "ws">>,        \* "  SELECT x FROM t  "
    <<"select", "c_dup">>,                  \* select 1 as a, 2 as a
    <<"with", "c_t">>,                      \* with q as (..) select x from t
    <<"cmt", "select", "c_one">>,           \* /*c*/ select 1 as x
    <<"update">>,                           \* update t set x = 0
    <<"commit", ";", "update">>,            \* commit; update t set x = 0
    <<"setrw", ";", "update">>,             \* set transaction read write; update ..
    <<"selectx">>,                          \* selectx  (not SQL)
    Absent }

\* The texts of the runs that exercise the limiter with several addresses.
FewTexts == { <<"select", "c_one">> }

\* The texts of the runs that follow a connection to its release: one that
\* the server executes, one that it rejects and one that never reaches it.
ExitTexts == { <<"select", "c_one">>, <<"update">>, Absent }

\* ------------------------------------------- Statement classifier (python)
IsSpace(tok) == tok = "ws"

RECURSIVE LStrip(_)
LStrip(s) == IF s # <<>> /\ IsSpace(Head(s)) THEN LStrip(Tail(s)) ELSE s

RECURSIVE RStrip(_)
RStrip(s) ==
  IF s # <<>> /\ IsSpace(s[Len(s)]) THEN RStrip(SubSeq(s, 1, Len(s) - 1)) ELSE s

\* str.strip()
Strip(s) == RStrip(LStrip(s))

\* str.lower() of one lexeme
LowerTok(tok) ==
  CASE tok = "SELECT" -> "select"
    [] tok = "UPDATE" -> "update"
    [] OTHER -> tok

\* str.lower()
Lower(s) == [i \in 1..Len(s) |-> LowerTok(s[i])]

\* str.startswith('select'): the lexemes whose spelling begins with select
StartsWithSelect(s) == s # <<>> /\ Head(s) \in {"select", "selectx"}

\* sqlquery.strip().lower().startswith('select') with the case folding left out
ExpectsRowsCaseSensitive(sqlquery) == StartsWithSelect(Strip(sqlquery))

\* sqlquery.strip().lower().startswith('select')
ExpectsRows(sqlquery) == StartsWithSelect(Lower(Strip(sqlquery)))

\* -------------------------------------------------- PostgreSQL, the server
\* Committed contents of table t (column x), in the order a scan returns it.
InitTable == <<2, 1>>
UpdatedTable == <<0, 0>>

\* The statements of a query string: split at ";".
RECURSIVE SplitStmts(_, _)
SplitStmts(s, acc) ==
  IF s = <<>> THEN <<acc>>
  ELSE IF Head(s) = ";" THEN <<acc>> \o SplitStmts(Tail(s), <<>>)
  ELSE SplitStmts(Tail(s), Append(acc, Head(s)))

\* White space and comments are skipped by the server's lexer; keywords are
\* case-insensitive.
RECURSIVE Lex(_)
Lex(s) ==
  IF s = <<>> THEN <<>>
  ELSE IF Head(s) \in {"ws", "cmt"} THEN Lex(Tail(s))
  ELSE <<LowerTok(Head(s))>> \o Lex(Tail(s))

SelectLists == {"c_one", "c_dup", "c_t"}

\* Kind of one statement: "empty", "query", "update", "commit", "setrw",
\* or "syntax" for text the grammar rejects.
StmtKind(st) ==
  LET l == Lex(st) IN
  CASE l = <<>> -> "empty"
    [] Len(l) = 2 /\ l[1] \in {"select", "with"} /\ l[2] \in SelectLists -> "query"
    [] l = <<"update">> -> "update"
    [] l = <<"commit">> -> "commit"
    [] l = <<"setrw">> -> "setrw"
    [] OTHER -> "syntax"

Stmts(sqlquery) == SplitStmts(sqlquery, <<>>)

SyntaxOk(sqlquery) ==
  \A i \in 1..Len(Stmts(sqlquery)) : StmtKind(Stmts(sqlquery)[i]) # "syntax"

\* Result set of a query statement against table image tbl.
Columns(st) ==
  CASE Lex(st)[2] = "c_one" -> <<"x">>
    [] Lex(st)[2] = "c_dup" -> <<"a", "a">>
    [] OTHER -> <<"x">>

ResultRows(st, tbl) ==
  CASE Lex(st)[2] = "c_one" -> << <<1>> >>
    [] Lex(st)[2] = "c_dup" -> << <<1, 2>> >>
    [] OTHER -> [i \in 1..Len(tbl) |-> <<tbl[i]>>]

NoResult == [columns |-> <<>>, rows |-> <<>>, has |-> FALSE]

\* A server session: tx is libpq's transaction status ("idle", "intrans",
\* "inerror"), ro is transaction_read_only, snap says whether the transaction
\* has taken its first snapshot, work is the transaction's image of t,
\* defro is default_transaction_read_only.
NewSession(defro) ==
  [tx |-> "idle", ro |-> defro, snap |-> FALSE, work |-> InitTable, defro |-> defro]

\* BEGIN
BeginTx(s, tbl) == [s EXCEPT !.tx = "intrans", !.ro = s.defro, !.snap = FALSE, !.work = tbl]

\* The session once its transaction has ended (COMMIT or ROLLBACK).
EndTx(s) == [s EXCEPT !.tx = "idle", !.ro = s.defro, !.snap = FALSE, !.work = InitTable]

\* One statement of a simple-query message.  db = [s: session, table, res:
\* the result of the first statement (what the cursor holds after execute),
\* seen: a statement has answered already, err: BOOLEAN].  Outside a
\* transaction block a statement runs in an implicit transaction that the end
\* of the message commits.
StepStmt(st, db) ==
  LET k == StmtKind(st)
      s == db.s
      intx == s.tx = "intrans"
      \* the image and access mode the statement runs under
      img == IF intx THEN s.work ELSE db.table
      ro == IF intx THEN s.ro ELSE s.defro
      answered == [db EXCEPT !.seen = TRUE]
  IN
  CASE db.err \/ k = "empty" -> db
    [] k = "commit" ->
         \* COMMIT ends the block: its writes become the table
         [answered EXCEPT !.table = IF intx THEN s.work ELSE db.table, !.s = EndTx(s)]
    [] k = "setrw" ->
         \* SET TRANSACTION READ WRITE: refused once a snapshot was taken
         IF intx /\ s.ro /\ s.snap
         THEN [db EXCEPT !.err = TRUE, !.s = [s EXCEPT !.tx = "inerror"]]
         ELSE IF intx THEN [answered EXCEPT !.s = [s EXCEPT !.ro = FALSE]] ELSE answered
    [] k = "query" ->
         [answered EXCEPT !.res = IF db.seen THEN db.res
                                  ELSE [columns |-> Columns(st),
                                        rows |-> ResultRows(st, img), has |-> TRUE],
                          !.s = IF intx THEN [s EXCEPT !.snap = TRUE] ELSE s]
    [] k = "update" ->
         IF ro
         THEN \* cannot execute UPDATE in a read-only transaction
              [db EXCEPT !.err = TRUE,
                         !.s = IF intx THEN [s EXCEPT !.tx = "inerror"] ELSE s]
         ELSE IF intx
         THEN [answered EXCEPT !.s = [s EXCEPT !.work = UpdatedTable, !.snap = TRUE]]
         ELSE [answered EXCEPT !.table = UpdatedTable]

RECURSIVE RunStmts(_, _)
RunStmts(stmts, db) ==
  IF stmts = <<>> THEN db ELSE RunStmts(Tail(stmts), StepStmt(Head(stmts), db))

\* The server's answer to one query string sent on session s: a syntax error
\* anywhere rejects the whole string before any statement runs.
RunQuery(sqlquery, s, tbl) ==
  LET db0 == [s |-> s, table |-> tbl, res |-> NoResult, seen |-> FALSE, err |-> FALSE] IN
  IF ~SyntaxOk(sqlquery)
  THEN [db0 EXCEPT !.err = TRUE,
                   !.s = IF s.tx = "intrans" THEN [s EXCEPT !.tx = "inerror"] ELSE s]
  ELSE RunStmts(Stmts(sqlquery), db0)

\* Whether the text holds a statement that writes to t.
Mutates(sqlquery) ==
  \E i \in 1..Len(Stmts(sqlquery)) : StmtKind(Stmts(sqlquery)[i]) = "update"

\* ------------------------------------------------------ Result normaliser
\* dict(zip(columns, row)): a later column of the same name overwrites.
ZipDict(columns, row) ==
  [n \in {columns[i] : i \in 1..Len(columns)} |->
     row[CHOOSE i \in 1..Len(columns) :
           /\ columns[i] = n
           /\ \A j \in 1..Len(columns) : columns[j] = n => j <= i]]

\* [dict(zip(columns, row)) for row in rows]
DictRows(res) ==
  [i \in 1..Len(res.rows) |-> [shape |-> "mapping", val |-> ZipDict(res.columns, res.rows[i])]]

\* list(results) of cursor.fetchall() under psycopg's default tuple rows
TupleRows(res) ==
  [i \in 1..Len(res.rows) |-> [shape |-> "tuple", val |-> res.rows[i]]]

\* ----------------------------------------------------------------- state
VARIABLES
  pending, \* number of accepted calls waiting for the event loop
  task,    \* the call the event loop is running: its arguments, the handler's
           \* locals and its position; pc = "idle" when the loop is free
  hits,    \* limiter storage: hits in the current window per endpoint, address
  table,   \* committed contents of t
  pool     \* idle physical connections of the SQLAlchemy engine (sessions)

vars == <<pending, task, hits, table, pool>>

NoConn == [backend |-> None, broken |-> FALSE, s |-> NewSession(FALSE)]
NoOutcome == [status |-> 0, body |-> None, prefix |-> None, cause |-> None,
              wrapped |-> FALSE, data |-> <<>>]

IdleTask ==
  [pc |-> "idle", ep |-> None, api_key |-> None, addr |-> None, sqlquery |-> <<>>,
   limit |-> None, connection |-> NoConn, cursor |-> NoResult, branch |-> None,
   results |-> <<>>, exc |-> None,
   log |-> <<>>, before |-> InitTable, outcome |-> NoOutcome]

Init ==
  /\ pending = 0
  /\ task = IdleTask
  /\ hits = [e \in Throttled |-> [a \in Addrs |-> 0]]
  /\ table = InitTable
  /\ pool = <<>>

\* ------------------------------------------------------------- responses
Unauthorized == [NoOutcome EXCEPT !.status = 401, !.body = "error",
                                  !.prefix = "Invalid API key"]
RateLimited == [NoOutcome EXCEPT !.status = 429, !.body = "error",
                                 !.prefix = "Rate limit exceeded."]
Failure(prefix, cause) == [NoOutcome EXCEPT !.status = 500, !.body = "error",
                                            !.prefix = prefix, !.cause = cause]
Rows(data, wrapped) == [NoOutcome EXCEPT !.status = 200, !.body = "rows",
                                         !.wrapped = wrapped, !.data = data]
Acknowledgement(message) == [NoOutcome EXCEPT !.status = 200, !.body = "ack",
                                              !.prefix = message]

\* ------------------------------------------------------------ the limiter
\* limits' fixed-window hit(): the storage counter is incremented first ...
HitLost(h, ep, addr) == h

HitTwice(h, ep, addr) == [h EXCEPT ![ep][addr] = @ + 2]

Hit(h, ep, addr) == [h EXCEPT ![ep][addr] = @ + 1]

\* ... and the call passes when the incremented count is within the quota.
WithinLimitStrict(h, ep, addr) == h[ep][addr] < Quota

WithinLimit(h, ep, addr) == h[ep][addr] <= Quota

\* ------------------------------------------------------------- the engine
\* set_session_readonly, the engine's "connect" listener: the session of a
\* new physical connection, read-only by default when set_session worked.
\* Its except clause swallows the failure, so the connection is handed out
\* either way.
set_session_readonly(set_ok) == NewSession(set_ok)

\* Pool checkin: reset-on-return rolls back whatever is open; a connection
\* the driver reported broken is discarded instead.
Checkin(connection) == IF connection.broken THEN <<>> ELSE <<EndTx(connection.s)>>

\* SET TRANSACTION READ ONLY on the server.
SetReadOnly(s) == [s EXCEPT !.ro = TRUE]

\* COMMIT sent by the driver: a no-op when the session is not in a block.
CommitTable(s, tbl) == IF s.tx = "intrans" THEN s.work ELSE tbl

\* trans.rollback() / the ROLLBACK of a transaction block left by an exception
RollbackSkipped(s) == s

TransRollback(s) == EndTx(s)

Pooled(ep) == ep = "sqlquery_alchemy"
Backend(ep) == IF Pooled(ep) THEN "pooled" ELSE "direct"

\* ------------------------------------------------------- the handlers' order
\* The statement that follows `at` when `at` neither raises nor returns.
\* "enter" is the call of the undecorated handler body.
SuccessorAuthInsideWith(at) ==
  CASE at = "enter" -> "connect"
    [] at = "connect" -> "auth"
    [] at = "auth" -> "begin"
    [] at = "begin" -> "directive"
    [] at = "directive" -> "execute"
    [] at = "fetch" -> "commit"
    [] at = "commit" -> "release"
    [] at = "rollback" -> "release"
    [] OTHER -> "done"

\* The same order with the statement run again after a rollback.
SuccessorRetry(at) ==
  CASE at = "enter" -> "auth"
    [] at = "auth" -> "connect"
    [] at = "connect" -> "begin"
    [] at = "begin" -> "directive"
    [] at = "directive" -> "execute"
    [] at = "fetch" -> "commit"
    [] at = "commit" -> "release"
    [] at = "rollback" -> "execute"
    [] OTHER -> "done"

\* The same order without line 103 / 144 / 181.
SuccessorNoDirective(at) ==
  CASE at = "enter" -> "auth"
    [] at = "auth" -> "connect"
    [] at = "connect" -> "begin"
    [] at = "begin" -> "execute"
    [] at = "fetch" -> "commit"
    [] at = "commit" -> "release"
    [] at = "rollback" -> "release"
    [] OTHER -> "done"

Successor(at) ==
  CASE at = "enter" -> "auth"
    [] at = "auth" -> "connect"
    [] at = "connect" -> "begin"
    [] at = "begin" -> "directive"
    [] at = "directive" -> "execute"
    [] at = "fetch" -> "commit"
    [] at = "commit" -> "release"
    [] at = "rollback" -> "release"
    [] OTHER -> "done"

\* Where the handler body starts.
Entry == Successor("enter")

\* if api_key != REX_API_KEY
KeyIgnored(api_key) == FALSE

KeyMismatch(api_key) == api_key # REX_API_KEY

\* ---------------------------------------------------------------- actions
\* An inbound call is accepted by the server and waits for the event loop.
Arrive ==
  /\ pending < MaxPending
  /\ pending' = pending + 1
  /\ UNCHANGED <<task, hits, table, pool>>

\* The event loop, when free, parses a waiting call and enters its route:
\* the limiter's wrapper for the decorated routes, the handler otherwise.
\* The unthrottled route never reads the client address, so one stands for all.
Dispatch(addrs, texts) ==
  /\ task.pc = "idle"
  /\ pending > 0
  /\ pending' = pending - 1
  /\ \E ep \in Endpoints, api_key \in ApiKeys, addr \in addrs, sqlquery \in texts :
       /\ ep \in Throttled => hits[ep][addr] < MaxHits
       /\ ep \notin Throttled => addr = "a1"
       /\ sqlquery = Absent => ep = "query_salesforce_data"
       /\ task' = [IdleTask EXCEPT
                     !.pc = IF ep \in Throttled THEN "limit" ELSE Entry,
                     !.ep = ep, !.api_key = api_key, !.addr = addr,
                     !.sqlquery = sqlquery, !.before = table]
  /\ UNCHANGED <<hits, table, pool>>

\* @limiter.limit(RATE_LIMIT): count the hit for (route, remote address); over
\* the quota, RateLimitExceeded goes to custom_rate_limit_exceeded_handler,
\* within it the wrapper calls the handler.
Limit ==
  /\ task.pc = "limit"
  /\ hits' = Hit(hits, task.ep, task.addr)
  /\ task' = IF WithinLimit(hits', task.ep, task.addr)
             THEN [task EXCEPT !.pc = Entry, !.limit = "passed"]
             ELSE [task EXCEPT !.pc = "done", !.limit = "exceeded",
                               !.outcome = RateLimited]
  /\ UNCHANGED <<pending, table, pool>>

\* if api_key != REX_API_KEY: raise HTTPException(401)
Auth ==
  /\ task.pc = "auth"
  /\ task' = IF KeyMismatch(task.api_key)
             THEN [task EXCEPT !.pc = "done", !.outcome = Unauthorized]
             ELSE [task EXCEPT !.pc = Successor("auth")]
  /\ UNCHANGED <<pending, hits, table, pool>>

\* engine.connect() / psycopg.connect(...).  The pool hands out its idle
\* connection when the pre-ping answers, and otherwise opens a new one, on
\* which the connect listener runs; opening may fail.
Connect ==
  /\ task.pc = "connect"
  /\ \E how \in {"reuse", "open", "fail"}, set_ok \in BOOLEAN :
       /\ how = "reuse" => Pooled(task.ep) /\ pool # <<>> /\ ~set_ok
       /\ how = "fail" => ~set_ok
       /\ (how = "open" /\ ~Pooled(task.ep)) => ~set_ok
       /\ task' =
            IF how = "fail"
            THEN [task EXCEPT !.pc = "classify", !.exc = "driver",
                              !.log = Append(@, "connect_failed")]
            ELSE [task EXCEPT !.pc = Successor("connect"),
                              !.log = Append(@, "connect"),
                              !.connection =
                                 [backend |-> Backend(task.ep), broken |-> FALSE,
                                  s |-> IF how = "reuse" THEN pool[1]
                                        ELSE set_session_readonly(set_ok)]]
       /\ pool' = IF Pooled(task.ep) THEN <<>> ELSE pool
  /\ UNCHANGED <<pending, hits, table>>

\* trans = connection.begin() / with connection.transaction():
Begin ==
  /\ task.pc = "begin"
  /\ task' = [task EXCEPT !.pc = Successor("begin"), !.log = Append(@, "begin"),
                          !.connection.s = BeginTx(@, table)]
  /\ UNCHANGED <<pending, hits, table, pool>>

\* connection.exec_driver_sql / connection.execute("SET TRANSACTION READ ONLY");
\* it fails when the connection is lost, which also ends the server's block.
Directive ==
  /\ task.pc = "directive"
  /\ \E ok \in BOOLEAN :
       task' =
         IF ok
         THEN [task EXCEPT !.pc = Successor("directive"),
                           !.log = Append(@, "directive"),
                           !.connection.s = SetReadOnly(@)]
         ELSE [task EXCEPT !.pc = "rollback", !.log = Append(@, "directive_failed"),
                           !.exc = "driver", !.connection.broken = TRUE,
                           !.connection.s = EndTx(@)]
  /\ UNCHANGED <<pending, hits, table, pool>>

\* connection.execute(text(sqlquery)) / cursor.execute(sqlquery): the text goes
\* to the server verbatim; then the handler branches on the leading keyword.
Execute ==
  /\ task.pc = "execute"
  /\ LET db == RunQuery(task.sqlquery, task.connection.s, table) IN
     /\ table' = IF task.sqlquery = Absent THEN table ELSE db.table
     /\ task' =
          IF task.sqlquery = Absent
          THEN \* TypeError in the driver's argument handling: nothing is sent
               [task EXCEPT !.pc = "rollback", !.log = Append(@, "execute_failed"),
                            !.exc = "type"]
          ELSE IF db.err
          THEN [task EXCEPT !.pc = "rollback", !.log = Append(@, "execute_failed"),
                            !.exc = "driver", !.connection.s = db.s]
          ELSE [task EXCEPT !.pc = IF ExpectsRows(task.sqlquery)
                                   THEN "fetch" ELSE "commit",
                            !.branch = IF ExpectsRows(task.sqlquery)
                                       THEN "rows" ELSE "ack",
                            !.log = Append(@, "execute"),
                            !.cursor = db.res, !.connection.s = db.s]
  /\ UNCHANGED <<pending, hits, pool>>

\* The select branch: fetchall() and the shaping of the rows.
\* sqlquery_alchemy and query_salesforce_data zip column names with each row;
\* sqlquery_direct returns list(results).
Normalize(ep, cursor) ==
  IF ep = "sqlquery_direct" THEN TupleRows(cursor) ELSE DictRows(cursor)

Fetch ==
  /\ task.pc = "fetch"
  /\ task' = [task EXCEPT !.pc = Successor("fetch"), !.log = Append(@, "fetch"),
                          !.results = Normalize(task.ep, task.cursor)]
  /\ UNCHANGED <<pending, hits, table, pool>>

\* trans.commit() on the pooled route (inside its try, so a failure reaches
\* the bare except and trans.rollback()); the exit of connection.transaction()
\* on the direct routes (a failure goes straight to the connection's exit).
\* COMMIT fails when the connection is lost; the server then aborts the block.
Commit ==
  /\ task.pc = "commit"
  /\ \E ok \in BOOLEAN :
       /\ table' = IF ok THEN CommitTable(task.connection.s, table) ELSE table
       /\ task' =
            IF ok
            THEN [task EXCEPT !.pc = Successor("commit"), !.log = Append(@, "commit"),
                              !.connection.s = EndTx(@)]
            ELSE [task EXCEPT !.pc = IF Pooled(task.ep) THEN "rollback" ELSE "release",
                              !.log = Append(@, "commit_failed"),
                              !.exc = "driver", !.connection.broken = TRUE,
                              !.connection.s = EndTx(@)]
  /\ UNCHANGED <<pending, hits, pool>>

\* except: trans.rollback(); raise -- or the transaction block's exit on an
\* exception.
Rollback ==
  /\ task.pc = "rollback"
  /\ task' = [task EXCEPT !.pc = Successor("rollback"), !.log = Append(@, "rollback"),
                          !.connection.s = TransRollback(@)]
  /\ UNCHANGED <<pending, hits, table, pool>>

\* What the exit of `with engine.connect()` / `with psycopg.connect()` leaves
\* of the handler's connection: nothing, on return and on exception alike.
HeldOnError(t) == IF t.exc = None THEN NoConn ELSE t.connection

Held(t) == NoConn

\* Where the handler goes once the connection's block is left: on to its
\* return, or with the exception (re-raised by `raise`) to the except clauses.
AfterRelease(t) == IF t.exc = None THEN "return" ELSE "classify"

\* Exit of the connection's with block: checkin to the pool, or close.
Release ==
  /\ task.pc = "release"
  /\ pool' = IF Pooled(task.ep) /\ Held(task) = NoConn
             THEN Checkin(task.connection) ELSE pool
  /\ task' = [task EXCEPT !.pc = AfterRelease(task),
                          !.log = Append(@, "release"), !.connection = Held(task)]
  /\ UNCHANGED <<pending, hits, table>>

\* The value the handler returns.
ReturnValue(t) ==
  IF t.branch = "rows"
  THEN Rows(t.results, t.ep = "query_salesforce_data")
  ELSE Acknowledgement(IF t.ep = "query_salesforce_data"
                       THEN "Non-select executed" ELSE "Query executed successfully")

Return ==
  /\ task.pc = "return"
  /\ task' = [task EXCEPT !.pc = "done", !.outcome = ReturnValue(task)]
  /\ UNCHANGED <<pending, hits, table, pool>>

\* The except clauses at the end of each handler, without the last one.
ClassifiedDriverOnly(t) ==
  IF t.exc = "driver" THEN Failure("Database error: ", t.exc) ELSE NoOutcome

\* The except clauses at the end of each handler.
Classified(t) ==
  IF t.ep = "query_salesforce_data" THEN Failure("", t.exc)
  ELSE IF t.exc = "driver" THEN Failure("Database error: ", t.exc)
  ELSE Failure("Unexpected error: ", t.exc)

Classify ==
  /\ task.pc = "classify"
  /\ task' = [task EXCEPT !.pc = "done", !.outcome = Classified(task)]
  /\ UNCHANGED <<pending, hits, table, pool>>

\* The response is sent and the event loop is free again.
Complete ==
  /\ task.pc = "done"
  /\ task' = IdleTask
  /\ UNCHANGED <<pending, hits, table, pool>>

\* The limiter's window of one (route, address) runs out: its key expires.
WindowExpire(ep, addr) ==
  /\ hits[ep][addr] > 0
  /\ hits' = [hits EXCEPT ![ep][addr] = 0]
  /\ UNCHANGED <<task, pending, table, pool>>

Handler ==
  \/ Limit \/ Auth \/ Connect \/ Begin \/ Directive \/ Execute \/ Fetch
  \/ Commit \/ Rollback \/ Release \/ Return \/ Classify \/ Complete

Expiry == \E ep \in Throttled, addr \in Addrs : WindowExpire(ep, addr)

\* Every SQL text, calls from one address.
Next == Arrive \/ Dispatch({"a1"}, SqlTexts) \/ Handler \/ Expiry

Spec == Init /\ [][Next]_vars

\* Calls from every address, one SQL text.
LimiterNext == Arrive \/ Dispatch(Addrs, FewTexts) \/ Handler \/ Expiry

LimiterSpec == Init /\ [][LimiterNext]_vars

\* Calls from one address, a text that succeeds and one that fails.  A handler
\* is synchronous code on the event loop and each of its database round trips
\* ends, in an answer or in an error: a handler that can step does step.
ReleaseNext == Arrive \/ Dispatch({"a1"}, ExitTexts) \/ Handler \/ Expiry

ReleaseSpec == Init /\ [][ReleaseNext]_vars /\ WF_vars(Handler)

\* ---------------------------------------------------------------- history
InLog(op) == \E i \in DOMAIN task.log : task.log[i] = op
Count(op) == Cardinality({i \in DOMAIN task.log : task.log[i] = op})
Done == task.pc = "done"

\* The outcome kinds of the gateway's error taxonomy, read off a response.
IsUnauthorized(o) == o.status = 401
IsRateLimited(o) == o.status = 429
IsDatabaseFailure(o) == o.status = 500 /\ o.cause = "driver"

\* The text, after leading white space, starts with the keyword select in
\* any letter case.
LeadsWithSelect(sqlquery) ==
  \E i \in DOMAIN sqlquery :
    /\ \A j \in 1..(i - 1) : sqlquery[j] = "ws"
    /\ sqlquery[i] \in {"select", "SELECT", "selectx"}

\* ------------------------------------------------------------------ claims

\* C1: a call with the valid key whose SQL text attempts a data mutation ends
\* as DatabaseFailure and leaves the table as it was, and no sequence of calls
\* ever changes a stored row.  (Read in the claim's favour: calls the limiter
\* turned away are not counted against it.)
C1_MutationNeverPersists ==
  /\ table = InitTable
  /\ (Done /\ task.api_key = REX_API_KEY /\ Mutates(task.sqlquery)
        /\ task.limit # "exceeded")
       => (IsDatabaseFailure(task.outcome) /\ table = task.before)

C3_RejectedTouchesNoDatabase ==
  (Done /\ (IsUnauthorized(task.outcome) \/ IsRateLimited(task.outcome))) =>
     /\ task.log = <<>>
     /\ task.connection = NoConn
     /\ table = task.before

C3_Witness ==
  /\ Done /\ IsUnauthorized(task.outcome) /\ task.ep = "sqlquery_alchemy"
  /\ pool # <<>> /\ task.log = <<>>

\* C4: on a throttled route, a call from an address whose window already
\* counts more than Quota hits is RateLimited; counts only fall by a window
\* reset, after which the address is admitted again; and the limiter's answer
\* to an address depends on that address's own count alone, which is the only
\* count the call changes.
C4_LimitedUntilReset ==
  [][ /\ (task.pc = "limit" /\ task'.pc # "limit") =>
           LET e == task.ep
               a == task.addr
           IN /\ hits[e][a] > Quota => task'.outcome = RateLimited
              /\ hits[e][a] = 0 => task'.limit = "passed" /\ task'.pc # "done"
              /\ (task'.limit = "passed") <=> (hits[e][a] < Quota)
              /\ \A e2 \in Throttled, a2 \in Addrs :
                   <<e2, a2>> # <<e, a>> => hits'[e2][a2] = hits[e2][a2]
      /\ \A e \in Throttled, a \in Addrs :
           hits'[e][a] < hits[e][a] => hits'[e][a] = 0
    ]_vars

C4_Witness ==
  /\ Done /\ task.outcome = RateLimited
  /\ hits[task.ep][task.addr] = Quota + 2
  /\ \E a2 \in Addrs : a2 # task.addr /\ hits[task.ep][a2] = Quota

\* C5: for the same select and the same result set, sqlquery_alchemy and
\* sqlquery_direct return the same Rows content.
C5_SameRowsOnBothBackends ==
  (Done /\ task.outcome.body = "rows" /\ task.ep \in Throttled) =>
     /\ task.outcome.data = Normalize("sqlquery_alchemy", task.cursor)
     /\ task.outcome.data = Normalize("sqlquery_direct", task.cursor)

\* C6: a select that the database executed yields Rows whose every row is a
\* mapping with one key per result column, in the order the database returned
\* the rows.  (Checked on the two routes that build mappings.)
C6_OneKeyPerColumn ==
  (Done /\ task.outcome.body = "rows" /\ task.ep # "sqlquery_direct") =>
     /\ Len(task.outcome.data) = Len(task.cursor.rows)
     /\ \A i \in DOMAIN task.outcome.data :
          /\ task.outcome.data[i].shape = "mapping"
          /\ Cardinality(DOMAIN task.outcome.data[i].val) = Len(task.cursor.columns)
          /\ \A c \in DOMAIN task.cursor.columns :
               task.outcome.data[i].val[task.cursor.columns[c]]
                 \in {task.cursor.rows[i][d] : d \in DOMAIN task.cursor.columns}

\* C7: the shape of a successful response follows the leading keyword alone:
\* Rows exactly when the trimmed, case-folded text starts with select, an
\* Acknowledgement without row data otherwise, also when the statement gave
\* rows to the cursor; and a call whose statement ran and committed succeeds.
C7_ShapeFollowsLeadingKeyword ==
  /\ (Done /\ task.outcome.status = 200) =>
        /\ (task.outcome.body = "rows") <=> LeadsWithSelect(task.sqlquery)
        /\ (task.outcome.body = "ack") <=> ~LeadsWithSelect(task.sqlquery)
        /\ task.outcome.body = "ack" => task.outcome.data = <<>>
  /\ (Done /\ InLog("execute") /\ InLog("commit")) => task.outcome.status = 200

C7_Witness ==
  /\ Done /\ task.outcome.body = "ack" /\ task.outcome.data = <<>>
  /\ task.sqlquery = <<"with", "c_t">> /\ task.cursor.has

\* C8: while a call is suspended at connection acquisition or at a database
\* round trip, a waiting call can start.
SuspensionPoints == {"connect", "directive", "execute", "commit", "rollback"}

C8_WaitingCallCanStart ==
  (pending > 0 /\ task.pc \in SuspensionPoints) => ENABLED Dispatch({"a1"}, SqlTexts)

\* C9: a call that acquired a connection began exactly one transaction on it,
\* the transaction is over (committed or rolled back) when the connection is
\* about to be released, and no connection sits in the pool with a
\* transaction active.
C9_TransactionEndedBeforeRelease ==
  /\ task.pc = "release" =>
        /\ task.connection.s.tx = "idle"
        /\ InLog("commit") \/ InLog("rollback") \/ InLog("commit_failed")
  /\ (task.pc \in {"release", "return", "classify", "done"} /\ InLog("connect"))
       => Count("begin") = 1
  /\ ~InLog("connect") => Count("begin") = 0
  /\ \A i \in DOMAIN pool : pool[i].tx = "idle"

C9_Witness ==
  /\ task.pc = "release" /\ InLog("execute_failed") /\ InLog("rollback")
  /\ task.connection.s.tx = "idle" /\ task.connection.backend = "pooled"

\* C10: a call that holds a connection eventually holds none; once the
\* connection's block is left -- by return, or by a failure of the directive,
\* of the execution or of the commit -- the call holds no connection and its
\* last database operation was the release; an idle gateway holds none; and a
\* pooled connection that is not broken is back in the pool.
C10_Released ==
  /\ task.pc \in {"return", "classify", "done", "idle"} =>
        /\ task.connection = NoConn
        /\ InLog("connect") => task.log[Len(task.log)] = "release"
  /\ (task.pc \in {"return", "classify"} /\ Pooled(task.ep) /\ InLog("connect")
        /\ ~InLog("directive_failed") /\ ~InLog("commit_failed")) => pool # <<>>

C10_ReleasedOnEveryExit ==
  /\ [] C10_Released
  /\ (task.connection # NoConn) ~> (task.connection = NoConn)

C10_Witness ==
  /\ task.pc = "classify" /\ InLog("commit_failed") /\ task.connection = NoConn
  /\ task.log[Len(task.log)] = "release"

\* The kind a caller can read off a 500 response: the handlers that classify
\* put it in front of the exception's message.
FailureKind(o) ==
  CASE o.prefix = "Database error: " -> "DatabaseFailure"
    [] o.prefix = "Unexpected error: " -> "UnexpectedFailure"
    [] OTHER -> "unmarked"

\* C11: on every query entry point a failure raised by the driver or the
\* connection layer (connection acquisition, read-only violation, syntax
\* error) is answered as DatabaseFailure carrying the driver's message, any
\* other failure as UnexpectedFailure, and the response tells the two apart.
C11_FailureKindsDistinguished ==
  (Done /\ task.exc # None) =>
     /\ task.outcome.status = 500
     /\ task.outcome.cause = task.exc
     /\ FailureKind(task.outcome) =
          (IF task.exc = "driver" THEN "DatabaseFailure" ELSE "UnexpectedFailure")

\* C12: every call ends, with exactly one outcome, whose status follows its
\* kind: Unauthorized is 401, RateLimited is 429 with one fixed message,
\* a failure of either kind is 500 carrying the failure's message; every
\* exception raised in a handler is answered as such a 500.
C12_Classified ==
  /\ Done =>
       /\ task.outcome.status \in {200, 401, 429, 500}
       /\ task.outcome.status = 401 => task.outcome = Unauthorized
       /\ task.outcome.status = 429 => task.outcome = RateLimited
       /\ task.limit = "exceeded" => task.outcome = RateLimited
       /\ task.outcome.status = 500 =>
            (task.exc # None /\ task.outcome.cause = task.exc)
       /\ task.exc # None => task.outcome.status = 500
       /\ task.outcome.status = 200 => task.outcome.body \in {"rows", "ack"}
  /\ ~Done => task.outcome = NoOutcome

C12_EveryRequestOneOutcome ==
  /\ [] C12_Classified
  /\ [][task.outcome # NoOutcome => (task' = task \/ task' = IdleTask)]_vars
  /\ (task.pc # "idle") ~> Done

C12_Witness ==
  /\ Done /\ task.exc = "type" /\ task.outcome.status = 500
  /\ task.outcome.cause = "type" /\ InLog("rollback") /\ InLog("release")

\* Position of the first occurrence of op in the call's database log, 0 when
\* it has none.
Pos(op) == IF InLog(op) THEN CHOOSE i \in DOMAIN task.log :
                                 task.log[i] = op /\ \A j \in 1..(i - 1) : task.log[j] # op
           ELSE 0

Executed == InLog("execute") \/ InLog("execute_failed")

\* C13: on every route, whenever the caller's SQL is handed to the database
\* the transaction has begun and SET TRANSACTION READ ONLY has been issued in
\* it, in that order; the text is executed in a session whose transaction is
\* read-only; and a call whose directive fails never executes the caller's
\* text, rolls back, and ends as a 500 carrying the driver's error.
C13_DirectiveBeforeCallerSql ==
  /\ Executed =>
       /\ 0 < Pos("begin") /\ Pos("begin") < Pos("directive")
       /\ Pos("directive") < Pos("execute") + Pos("execute_failed")
  /\ task.pc = "execute" =>
       /\ task.log = <<"connect", "begin", "directive">>
       /\ task.connection.s.tx = "intrans" /\ task.connection.s.ro
  /\ InLog("directive_failed") =>
       /\ ~Executed /\ ~InLog("commit")
       /\ task.pc \in {"release", "classify", "done"} => InLog("rollback")
       /\ Done => (IsDatabaseFailure(task.outcome) /\ table = task.before)

C13_Witness ==
  /\ Done /\ InLog("directive_failed") /\ InLog("rollback")
  /\ IsDatabaseFailure(task.outcome) /\ task.ep = "sqlquery_direct"
  /\ Mutates(task.sqlquery)

FailedStep == InLog("directive_failed") \/ InLog("execute_failed") \/ InLog("commit_failed")

\* C14: a call answers with Rows or an Acknowledgement only when its
\* transaction was committed, without any rollback; a call that failed after
\* its transaction began (at the directive, the execution or the commit) has
\* it rolled back -- the handler never committed, no transaction is open when
\* the connection is released, and nothing the call wrote is in the table --
\* and answers with an error.
C14_SuccessOnlyAfterCommit ==
  /\ (Done /\ task.outcome.status = 200) =>
       /\ InLog("commit") /\ task.log[Len(task.log) - 1] = "commit"
       /\ ~InLog("rollback") /\ ~FailedStep /\ task.exc = None
  /\ task.pc = "return" => (InLog("commit") /\ ~InLog("rollback"))
  /\ (FailedStep /\ task.pc \in {"release", "classify", "done"}) =>
       /\ ~InLog("commit")
       /\ InLog("rollback") \/ InLog("commit_failed")
       /\ task.connection.s.tx = "idle"
       /\ table = task.before
  /\ (Done /\ FailedStep) => task.outcome.status = 500

\* C15: on a throttled route the key is checked before the limiter is
\* consulted: for a call whose key is not the secret the limiter is never
\* evaluated (task.limit records its verdict, and evaluating it is what
\* counts the hit), and the call ends Unauthorized.
C15_AuthBeforeRateCheck ==
  (task.ep \in Throttled /\ KeyMismatch(task.api_key)) =>
     /\ task.limit = None
     /\ Done => task.outcome = Unauthorized

Failures == {"connect_failed", "directive_failed", "execute_failed", "commit_failed"}

\* C17: no call retries: it acquires at most one connection, begins at most
\* one transaction, issues the directive, the caller's SQL and the commit at
\* most once each; after a failed database operation its only further
\* database operations are a rollback and the release; and it then ends with
\* an error.
C17_NoRetry ==
  /\ Count("connect") + Count("connect_failed") <= 1
  /\ Count("begin") <= 1
  /\ Count("directive") + Count("directive_failed") <= 1
  /\ Count("execute") + Count("execute_failed") <= 1
  /\ Count("commit") + Count("commit_failed") <= 1
  /\ Count("rollback") <= 1 /\ Count("release") <= 1
  /\ \A i \in DOMAIN task.log :
       task.log[i] \in Failures =>
         /\ \A j \in (i + 1)..Len(task.log) : task.log[j] \in {"rollback", "release"}
         /\ task.exc # None
         /\ task.pc \in {"rollback", "release", "classify", "done"}
         /\ Done => task.outcome.status = 500

C17_Witness ==
  /\ Done /\ task.ep = "sqlquery_alchemy" /\ task.outcome.status = 500
  /\ task.log = <<"connect", "begin", "directive", "execute_failed", "rollback", "release">>
  /\ pool # <<>>

C19_UnthrottledRoute ==
  /\ [] (task.ep = "query_salesforce_data" =>
           (task.limit = None /\ task.pc # "limit" /\ ~IsRateLimited(task.outcome)))
  /\ [][ ((task.ep = "query_salesforce_data" \/ task'.ep = "query_salesforce_data")
            /\ task' # task) => hits' = hits ]_vars

C19_Witness ==
  /\ Done /\ task.ep = "query_salesforce_data" /\ task.outcome.status = 200
  /\ \A e \in Throttled : hits[e]["a1"] > Quota

\* C20: on a throttled route an admitted call takes exactly one unit of its
\* address's quota when the limiter admits it, and no later step of the call
\* -- the key check's rejection, a database failure, the response -- gives
\* the unit back; a counter below Quota admits, a counter at Quota or above
\* rejects, so Quota calls of whatever outcome use the window up.
C20_AdmittedHitNeverRefunded ==
  [][ /\ (task.pc = "limit" /\ task' # task) =>
           LET e == task.ep
               a == task.addr
           IN /\ task'.limit = "passed" => hits'[e][a] = hits[e][a] + 1
              /\ hits[e][a] < Quota => task'.limit = "passed"
              /\ hits[e][a] >= Quota => task'.limit = "exceeded"
      /\ (task.limit = "passed" /\ task' # task) => hits' = hits
      /\ \A e \in Throttled, a \in Addrs :
           hits'[e][a] < hits[e][a] => (task' = task /\ hits'[e][a] = 0)
    ]_vars

C20_Witness ==
  /\ Done /\ task.limit = "passed" /\ InLog("execute_failed")
  /\ IsDatabaseFailure(task.outcome)
  /\ hits[task.ep][task.addr] = Quota /\ pending > 0

====
